---- MODULE Spec2Model ----
(***************************************************************************)
(* Model of blazingjj's cache of 'jj show' output                           *)
(* (src/ui/commit_show_cache.rs): the key type CommitShowKey, the value     *)
(* type CommitShowValue and the CommitShowCache with its three maps; of the *)
(* line index LargeString (src/ui/utils/large_string.rs); and of the        *)
(* DetailsPanel that draws it (src/ui/panel/details_panel.rs).              *)
(***************************************************************************)
EXTENDS Integers, FiniteSets, Sequences, TLC

\* ------------------------------------------------------------------------
\* Bounds of the model
\* ------------------------------------------------------------------------
\* Commit ids are 1..MaxCommit
MaxCommit == 3
\* Render widths are 0..MaxWidth
MaxWidth == 2
\* Distinct outputs 'jj show' may produce for one key are 1..MaxOutput
MaxOutput == 2
\* A content String has at most MaxLen bytes
MaxLen == 5
\* The areas the panel is drawn in are at most MaxSide columns and rows
MaxSide == 5
\* A text has at most MaxLines lines, and a large string at most MaxLines
\* lines more or less than a u16 holds
MaxLines == 2

\* ------------------------------------------------------------------------
\* Heads, formats, keys and values
\* ------------------------------------------------------------------------
Commits == 1..MaxCommit

\* Two consecutive commits are snapshots of one change: commits 1 and 2
\* belong to change 1, commits 3 and 4 to change 2, ...
ChangeOf(commit) == (commit + 1) \div 2

\* A Head names a commit and the change it is a snapshot of
Heads == {[commit_id |-> c, change_id |-> ChangeOf(c)] : c \in Commits}

\* enum DiffFormat; DiffTool carries an Option<String> naming the tool
DiffFormat ==
    {[tag |-> t, tool |-> "-"] : t \in {"ColorWords", "Git", "Summary", "Stat"}}
        \cup {[tag |-> "DiffTool", tool |-> o] : o \in {"None", "Some(difft)"}}

Widths == 0..MaxWidth

\* CommitShowKey::new without the normalisation: the width is kept for
\* every format
CommitShowKey_new_KeepWidth(id, format, width) ==
    [id |-> id, format |-> format, width |-> width]

\* CommitShowKey::new: the width is kept only for the DiffTool format
CommitShowKey_new(id, format, width) ==
    [id |-> id,
     format |-> format,
     width |-> IF format.tag = "DiffTool" THEN width ELSE 0]

\* Option<T>: None is the empty set, Some(v) the singleton
None == {}
Some(v) == {v}

\* The formats and widths the cache is driven with
ColorWords == [tag |-> "ColorWords", tool |-> "-"]
CacheKeys == {CommitShowKey_new(h, ColorWords, MaxWidth) : h \in Heads}

Outputs == 1..MaxOutput

\* CommitShowValue::new: the key and the indexed output of 'jj show'
CommitShowValue_new(key, value) == [key |-> key, jj_output |-> value]

VARIABLES
    active_commits,   \* HashMap<ChangeId, HashSet<CommitShowKey>>
    old_commits,      \* HashMap<ChangeId, CommitShowKey>
    commit_document,  \* HashMap<CommitShowKey, CommitShowValue>
    last,             \* the last call on the cache and what it returned
    computed,         \* the keys fn_value has been invoked for so far,
                      \* where the callers keep a log of it
    new_args,         \* the arguments of two calls of CommitShowKey::new
    new_keys,         \* the keys those two calls returned
    string,           \* the String handed to LargeString::new
    large_string,     \* Option of the LargeString made of it
    rendered,         \* the last call of LargeString::render and its result
    panel,            \* the DetailsPanel
    drawn             \* Option of the last draw: the content and its area

cache == <<active_commits, old_commits, commit_document>>
text == <<string, large_string, rendered>>
details == <<panel, drawn>>
vars == <<active_commits, old_commits, commit_document, last, computed,
          new_args, new_keys, string, large_string, rendered, panel, drawn>>

\* An empty HashMap
EmptyMap == [x \in {} |-> x]

\* ------------------------------------------------------------------------
\* CommitShowCache
\* ------------------------------------------------------------------------
\* What is recorded of a call: the method, its key argument (the key of the
\* value for insert_document), the Option it returned, whether fn_value was
\* invoked, the key whose document the call removed, whether the call is a
\* repetition of the call before it, how often fn_value was invoked by this
\* call and by the call before it if this one repeats it, whether the call
\* ended in a panic, and whether that panic was fn_value's own.
Call(op, key, ret, ran, evicted, panic) ==
    LET again == last.op = op /\ last.key = key
    IN  [op |-> op, key |-> key, ret |-> ret, computed |-> ran,
         evicted |-> evicted,
         again |-> again,
         runs |-> (IF ran THEN 1 ELSE 0) + (IF again /\ last.computed THEN 1 ELSE 0),
         panic |-> panic,
         failed |-> FALSE]

\* The state of the cache part after CommitShowCache::new
InitCache ==
    /\ active_commits = EmptyMap
    /\ old_commits = EmptyMap
    /\ commit_document = EmptyMap
    /\ last = [op |-> "new", key |-> None, ret |-> None, computed |-> FALSE,
               evicted |-> None, again |-> FALSE, runs |-> 0, panic |-> FALSE,
               failed |-> FALSE]
    /\ computed = {}

\* No key is being made
NoKeys ==
    /\ new_args = <<>>
    /\ new_keys = <<>>

\* No LargeString is being made
NoText ==
    /\ string = <<>>
    /\ large_string = None
    /\ rendered = None

\* Rect::ZERO
RectZero == [x |-> 0, y |-> 0, width |-> 0, height |-> 0]

\* DetailsPanel::new, and nothing drawn yet
InitDetails ==
    /\ panel = [panel_rect |-> RectZero, content_rect |-> RectZero,
                scroll |-> 0, lines |-> 0, wrap |-> TRUE]
    /\ drawn = None

Init ==
    /\ InitCache
    /\ NoKeys
    /\ NoText
    /\ InitDetails

\* The first loop of set_active: every head becomes the template key with
\* its id replaced, filed under the head's change id. The loop only inserts
\* into a HashSet per change id, so the order and repetitions of the
\* Vec<Head> do not matter and active_heads is taken as a set.
ActiveFromHeads(active_heads, key) ==
    [c \in {h.change_id : h \in active_heads} |->
        {[key EXCEPT !.id = h] : h \in {g \in active_heads : g.change_id = c}}]

\* The second loop of set_active testing the key instead of its change id:
\* every cached key that is not itself active is filed as old
NotActive_ByKey(active, documents) ==
    {k \in DOMAIN documents :
        ~(k.id.change_id \in DOMAIN active /\ k \in active[k.id.change_id])}

\* The cached keys the second loop of set_active files as old: those whose
\* change id is not a key of active_commits
NotActive(active, documents) ==
    {k \in DOMAIN documents : k.id.change_id \notin DOMAIN active}

\* The second loop of set_active filing a key under any change id
OldFromDocuments_AnyChange(active, documents) ==
    LET not_active == NotActive(active, documents)
    IN  [{k.id.change_id : k \in not_active} -> not_active]

\* The second loop of set_active: a later key of the same change id
\* overwrites an earlier one, and HashMap iteration order is arbitrary, so
\* any of the filed keys of a change id may be the one that stays.
OldFromDocuments(active, documents) ==
    LET not_active == NotActive(active, documents)
    IN  {f \in [{k.id.change_id : k \in not_active} -> not_active] :
            \A c \in DOMAIN f : f[c].id.change_id = c}

\* set_active dropping the documents it files as old instead of keeping
\* them until the right commit arrives
SetActive_Purge(active_heads, key) ==
    /\ active_commits' = ActiveFromHeads(active_heads, key)
    /\ old_commits' = EmptyMap
    /\ commit_document' =
            [k \in DOMAIN commit_document \ NotActive(active_commits', commit_document)
                |-> commit_document[k]]
    /\ last' = Call("set_active", None, None, FALSE, None, FALSE)
    /\ UNCHANGED <<computed, new_args, new_keys, text, details>>

\* CommitShowCache::set_active
SetActive(active_heads, key) ==
    /\ active_commits' = ActiveFromHeads(active_heads, key)
    /\ old_commits' \in OldFromDocuments(active_commits', commit_document)
    /\ UNCHANGED commit_document
    /\ last' = Call("set_active", None, None, FALSE, None, FALSE)
    /\ UNCHANGED <<computed, new_args, new_keys, text, details>>

\* CommitShowCache::has_exact_match
has_exact_match(documents, key) == key \in DOMAIN documents

\* get looking for the indirect hit via the change id before the direct hit
get_OldFirst(old, documents, key) ==
    IF key.id.change_id \in DOMAIN old /\ old[key.id.change_id] \in DOMAIN documents
    THEN Some(documents[old[key.id.change_id]])
    ELSE IF key \in DOMAIN documents
         THEN Some(documents[key])
         ELSE None

\* get falling back to the old document of any change id
get_AnyOld(old, documents, key) ==
    IF has_exact_match(documents, key)
    THEN Some(documents[key])
    ELSE {documents[old[c]] : c \in {d \in DOMAIN old : old[d] \in DOMAIN documents}}

\* CommitShowCache::get, on the maps given
get(old, documents, key) ==
    IF has_exact_match(documents, key)
    THEN Some(documents[key])
    ELSE IF key.id.change_id \in DOMAIN old
         THEN LET old_key == old[key.id.change_id]
              IN  IF old_key \in DOMAIN documents
                  THEN Some(documents[old_key])
                  ELSE None
         ELSE None

\* A call of get: nothing but the returned value
Get(key) ==
    /\ last' = Call("get", Some(key), get(old_commits, commit_document, key),
                    FALSE, None, FALSE)
    /\ UNCHANGED <<cache, computed, new_args, new_keys, text, details>>

\* HashMap::remove
MapRemove(map, k) == [x \in DOMAIN map \ {k} |-> map[x]]

\* HashMap::insert
MapInsert(map, k, v) == [x \in DOMAIN map \cup {k} |-> IF x = k THEN v ELSE map[x]]

\* The key insert_document(value) looks up in old_commits and removes from
\* commit_document
OldKeyOf(old, value) ==
    IF value.key.id.change_id \in DOMAIN old
    THEN Some(old[value.key.id.change_id])
    ELSE None

\* insert_document leaving the old entry of the value's change id in
\* old_commits
OldAfterInsert_Keep(old, value) == old

\* old_commits after insert_document(value)
OldAfterInsert(old, value) ==
    IF OldKeyOf(old, value) # None
    THEN MapRemove(old, value.key.id.change_id)
    ELSE old

\* insert_document removing every document of the value's change id, as if
\* the documents were kept per change id
DocumentsAfterInsert_PerChange(old, documents, value) ==
    [k \in {j \in DOMAIN documents : j.id.change_id # value.key.id.change_id}
            \cup {value.key}
        |-> IF k = value.key THEN value ELSE documents[k]]

\* insert_document leaving the old document of the change id in place of
\* the new one
DocumentsAfterInsert_KeepOld(old, documents, value) ==
    IF OldKeyOf(old, value) # None
    THEN documents
    ELSE MapInsert(documents, value.key, value)

\* commit_document after insert_document(value)
DocumentsAfterInsert(old, documents, value) ==
    LET kept == IF OldKeyOf(old, value) # None
                THEN MapRemove(documents, old[value.key.id.change_id])
                ELSE documents
    IN  MapInsert(kept, value.key, value)

\* CommitShowCache::insert_document
InsertDocument(value) ==
    /\ commit_document' = DocumentsAfterInsert(old_commits, commit_document, value)
    /\ old_commits' = OldAfterInsert(old_commits, value)
    /\ UNCHANGED active_commits
    /\ last' = Call("insert_document", Some(value.key), None, FALSE,
                    OldKeyOf(old_commits, value) \cap DOMAIN commit_document,
                    FALSE)
    /\ UNCHANGED <<computed, new_args, new_keys, text, details>>

\* get_or_insert calling fn_value without looking for an exact match
NeedsCompute_Always(documents, key) == TRUE

\* get_or_insert looking for any match, also the indirect one via the
\* change id, before it calls fn_value
NeedsCompute_NoChange(documents, key) ==
    \A k \in DOMAIN documents : k.id.change_id # key.id.change_id

\* Whether get_or_insert calls fn_value
NeedsCompute(documents, key) == ~has_exact_match(documents, key)

\* CommitShowCache::get_or_insert, with fn_value returning value when called.
\* The final get(key).unwrap() panics when get finds nothing.
GetOrInsert(key, value) ==
    LET miss == NeedsCompute(commit_document, key)
        documents == IF miss
                     THEN DocumentsAfterInsert(old_commits, commit_document, value)
                     ELSE commit_document
        old == IF miss THEN OldAfterInsert(old_commits, value) ELSE old_commits
        found == get(old, documents, key)
    IN  /\ commit_document' = documents
        /\ old_commits' = old
        /\ UNCHANGED active_commits
        /\ last' = Call("get_or_insert", Some(key), found, miss,
                        IF miss
                        THEN OldKeyOf(old_commits, value) \cap DOMAIN commit_document
                        ELSE None,
                        found = None)
        /\ UNCHANGED <<new_args, new_keys, text, details>>

\* The callers of the cache: any heads, a template key, any key, and an
\* fn_value that keeps its contract (the value it returns has the key that
\* was asked for)
TemplateKey ==
    CommitShowKey_new(CHOOSE h \in Heads : h.commit_id = 1, ColorWords, MaxWidth)

CallSetActive == \E hs \in SUBSET Heads : SetActive(hs, TemplateKey)

CallGet == \E key \in CacheKeys : Get(key)

CallInsertDocument ==
    \E key \in CacheKeys, out \in Outputs :
        InsertDocument(CommitShowValue_new(key, out))

CallGetOrInsert ==
    \E key \in CacheKeys, out \in Outputs :
        /\ GetOrInsert(key, CommitShowValue_new(key, out))
        /\ UNCHANGED computed

\* The same caller keeping a log of the keys its fn_value ran for
CallGetOrInsertLogged ==
    \E key \in CacheKeys, out \in Outputs :
        /\ GetOrInsert(key, CommitShowValue_new(key, out))
        /\ computed' = IF last'.computed THEN computed \cup {key} ELSE computed

Next ==
    \/ CallSetActive
    \/ CallGet
    \/ CallInsertDocument
    \/ CallGetOrInsert

Spec == Init /\ [][Next]_vars

\* get_or_insert discarding the old document of the key's change id before
\* it calls an fn_value that does not return
GetOrInsertFails_EvictFirst(key) ==
    /\ NeedsCompute(commit_document, key)
    /\ commit_document' =
            IF key.id.change_id \in DOMAIN old_commits
            THEN MapRemove(commit_document, old_commits[key.id.change_id])
            ELSE commit_document
    /\ old_commits' = MapRemove(old_commits, key.id.change_id)
    /\ UNCHANGED active_commits
    /\ last' = [Call("get_or_insert", Some(key), None, TRUE, None, TRUE)
                    EXCEPT !.failed = TRUE]
    /\ UNCHANGED <<computed, new_args, new_keys, text, details>>

\* CommitShowCache::get_or_insert with an fn_value that does not return a
\* value (it panics, the only way an FnOnce() -> CommitShowValue can fail):
\* the call unwinds from the line that calls fn_value, before
\* insert_document. fn_value is only called when there is no exact match.
GetOrInsertFails(key) ==
    /\ NeedsCompute(commit_document, key)
    /\ UNCHANGED cache
    /\ last' = [Call("get_or_insert", Some(key), None, TRUE, None, TRUE)
                    EXCEPT !.failed = TRUE]
    /\ UNCHANGED <<computed, new_args, new_keys, text, details>>

\* Callers that do not keep the contract of fn_value: it may return a value
\* with any key, or not return
CallGetOrInsertAny ==
    \E key \in CacheKeys, value_key \in CacheKeys, out \in Outputs :
        /\ GetOrInsert(key, CommitShowValue_new(value_key, out))
        /\ UNCHANGED computed

CallGetOrInsertFails == \E key \in CacheKeys : GetOrInsertFails(key)

\* A panic ends the use of the cache
NextContract ==
    \/ ~last.panic /\ CallSetActive
    \/ ~last.panic /\ CallGetOrInsertAny
    \/ ~last.panic /\ CallGetOrInsertFails

SpecContract == Init /\ [][NextContract]_vars

\* The cache as the details view drives it: set_active and get_or_insert only
NextShow ==
    \/ CallSetActive
    \/ CallGetOrInsertLogged

SpecShow == Init /\ [][NextShow]_vars

\* The cache filled by insert_document alone
NextInsert ==
    \/ CallSetActive
    \/ CallGet
    \/ CallInsertDocument

SpecInsert == Init /\ [][NextInsert]_vars

\* ------------------------------------------------------------------------
\* CommitShowKey::new as a function of its arguments
\* ------------------------------------------------------------------------
KeyArgs == [id : Heads, format : DiffFormat, width : Widths]

\* Two calls of CommitShowKey::new are about to be made
InitKey ==
    /\ InitCache
    /\ NoText
    /\ InitDetails
    /\ new_args \in KeyArgs \X KeyArgs
    /\ new_keys = <<>>

\* The two calls are made
NewKeys ==
    /\ new_keys = <<>>
    /\ new_keys' = <<CommitShowKey_new(new_args[1].id, new_args[1].format,
                                       new_args[1].width),
                     CommitShowKey_new(new_args[2].id, new_args[2].format,
                                       new_args[2].width)>>
    /\ UNCHANGED <<cache, last, computed, new_args, text, details>>

NextKey == NewKeys

SpecKey == InitKey /\ [][NextKey]_vars

\* ------------------------------------------------------------------------
\* LargeString
\* ------------------------------------------------------------------------
\* The bytes of a content String: an ordinary byte, b'\n' and b'\r'
Bytes == {"a", "LF", "CR"}

\* Sequences of at most n elements of S
SeqUpTo(S, n) == UNION {[1..m -> S] : m \in 0..n}

\* The Strings LargeString::new is given
Strings == SeqUpTo(Bytes, MaxLen)

\* bytes[i], offsets counting from 0 as in the source
ByteAt(bytes, i) == bytes[i + 1]

\* fn is_eol_char
is_eol_char(c) == c = "LF" \/ c = "CR"

\* The inner loop of LargeString::new: skip all non-EOL chars
RECURSIVE SkipNonEol(_, _)
SkipNonEol(bytes, i) ==
    IF i < Len(bytes) /\ ~is_eol_char(ByteAt(bytes, i))
    THEN SkipNonEol(bytes, i + 1)
    ELSE i

\* The test for a pair of EOL chars without the comparison of the two:
\* any two EOL chars in a row are taken as one pair
AtPair_SameToo(bytes, i) ==
    /\ i + 1 < Len(bytes)
    /\ is_eol_char(ByteAt(bytes, i + 1))

\* The test of LargeString::new for a pair of EOL chars at offset i: the
\* next byte is an EOL char and differs from this one
AtPair(bytes, i) ==
    /\ i + 1 < Len(bytes)
    /\ is_eol_char(ByteAt(bytes, i + 1))
    /\ ByteAt(bytes, i) # ByteAt(bytes, i + 1)

\* The outer loop of LargeString::new pushing the line start after the
\* line has been skipped instead of before
RECURSIVE IndexLines_PushAfter(_, _, _)
IndexLines_PushAfter(bytes, i, line_start) ==
    IF i < Len(bytes)
    THEN LET eol == SkipNonEol(bytes, i)
             last_eol == IF AtPair(bytes, eol) THEN eol + 1 ELSE eol
         IN  IndexLines_PushAfter(bytes, last_eol + 1,
                                  Append(line_start, last_eol + 1))
    ELSE line_start

\* The outer loop of LargeString::new, from offset i with the line starts
\* found so far
RECURSIVE IndexLines(_, _, _)
IndexLines(bytes, i, line_start) ==
    IF i < Len(bytes)
    THEN LET eol == SkipNonEol(bytes, i)
             last_eol == IF AtPair(bytes, eol) THEN eol + 1 ELSE eol
         IN  IndexLines(bytes, last_eol + 1, Append(line_start, i))
    ELSE line_start

\* LargeString::new
LargeString_new(content) ==
    [content |-> content, line_start |-> IndexLines(content, 0, <<>>)]

\* LargeString::lines
lines(ls) == Len(ls.line_start)

\* The closure get_line_start of render without the clamp to the end of
\* the content: a line past the last one starts at offset 0
get_line_start_NoClamp(ls, line) ==
    IF line < Len(ls.line_start) THEN ls.line_start[line + 1] ELSE 0

\* The closure get_line_start of render
get_line_start(ls, line) ==
    IF line < Len(ls.line_start) THEN ls.line_start[line + 1] ELSE Len(ls.content)

\* &content[start..end]; the index panics unless start <= end <= len
Slice(content, start, end) == SubSeq(content, start + 1, end)

\* The result of into_text() of the ansi_to_tui crate on a slice: Ok(text)
\* or Err(err), as the crate decides
IntoText(str, decodes) ==
    IF decodes
    THEN [ok |-> TRUE, val |-> [from |-> "ansi", bytes |-> str]]
    ELSE [ok |-> FALSE, val |-> [from |-> "error", bytes |-> str]]

\* render handing the decoding error on instead of rendering it as Text
render_Unwrap(ls, top_line, line_count, decodes) ==
    LET start == get_line_start(ls, top_line)
        end == get_line_start(ls, top_line + line_count)
        sliced == start <= end /\ end <= Len(ls.content)
        decoded == IntoText(IF sliced THEN Slice(ls.content, start, end) ELSE <<>>,
                            decodes)
    IN  [top_line |-> top_line, line_count |-> line_count,
         start |-> start, end |-> end, decodes |-> decodes,
         panic |-> ~sliced \/ ~decoded.ok,
         text |-> IF sliced /\ decoded.ok THEN Some(decoded.val) ELSE None]

\* LargeString::render: the slice bounds, what into_text() made of the
\* slice, whether slicing panicked, and the Text returned. The sum top_line + line_count stays far below usize::MAX
\* for the arguments drawn here.
render(ls, top_line, line_count, decodes) ==
    LET start == get_line_start(ls, top_line)
        end == get_line_start(ls, top_line + line_count)
        sliced == start <= end /\ end <= Len(ls.content)
        decoded == IntoText(IF sliced THEN Slice(ls.content, start, end) ELSE <<>>,
                            decodes)
    IN  [top_line |-> top_line, line_count |-> line_count,
         start |-> start, end |-> end, decodes |-> decodes,
         panic |-> ~sliced,
         text |-> IF sliced THEN Some(decoded.val) ELSE None]

\* A String is about to be indexed
InitText ==
    /\ InitCache
    /\ NoKeys
    /\ InitDetails
    /\ string \in Strings
    /\ large_string = None
    /\ rendered = None

\* The String is indexed
NewLargeString ==
    /\ large_string = None
    /\ large_string' = Some(LargeString_new(string))
    /\ UNCHANGED <<cache, last, computed, new_args, new_keys, string, rendered,
                   details>>

\* A range of lines is rendered; the LargeString stays as it is
Render(top_line, line_count, decodes) ==
    /\ large_string # None
    /\ \E ls \in large_string :
        rendered' = Some(render(ls, top_line, line_count, decodes))
    /\ UNCHANGED <<cache, last, computed, new_args, new_keys, string,
                   large_string, details>>

\* The lines and counts render is asked for reach past the last line
LineArgs == 0..(MaxLen + 1)

CallRender ==
    \E top_line \in LineArgs, line_count \in LineArgs, decodes \in BOOLEAN :
        Render(top_line, line_count, decodes)

NextText ==
    \/ NewLargeString
    \/ CallRender

SpecText == InitText /\ [][NextText]_vars

\* ------------------------------------------------------------------------
\* DetailsPanel
\* ------------------------------------------------------------------------
\* The number of values of a u16
U16 == 65536

\* usize as u16: the value modulo 2^16
AsU16(n) == n % U16

\* The areas a frame hands to draw
Areas == [x : {0}, y : {0}, width : 0..MaxSide, height : 0..MaxSide]

\* u16::saturating_sub
SaturatingSub(a, b) == IF a > b THEN a - b ELSE 0

\* Block::bordered().padding(Padding::horizontal(1)).inner(area) of
\* ratatui: one cell of border on every side and one column of padding
\* left and right
Inner(area) ==
    [x |-> area.x + (IF area.width >= 4 THEN 2 ELSE 0),
     y |-> area.y + (IF area.height >= 2 THEN 1 ELSE 0),
     width |-> SaturatingSub(area.width, 4),
     height |-> SaturatingSub(area.height, 2)]

\* A TextContent: the number of lines of its Text, and the number of lines
\* Paragraph::line_count of ratatui reports for it when long lines are
\* wrapped at the width it is drawn with
Texts == {t \in [lines : 0..MaxLines, wrapped : 0..MaxLines] : t.lines <= t.wrapped}

\* A LargeStringContent, as far as the panel looks at it: its lines()
LargeLines == (0..MaxLines) \cup {U16 + n : n \in 0..MaxLines}

\* LargeStringContent::render_as_paragraph: the panel it leaves. The lines
\* it renders, from panel.scroll for area.height lines, only go into the
\* Paragraph.
LargeAsParagraph(p, content_lines, area) ==
    [p EXCEPT !.lines = AsU16(content_lines)]

\* TextContent::render_as_paragraph: the panel it leaves. The scroll
\* offset it clamps only goes into the Paragraph.
TextAsParagraph(p, t, area) ==
    [p EXCEPT !.content_rect = area,
              !.lines = AsU16(IF p.wrap THEN t.wrapped ELSE t.lines)]

\* DetailsPanelRenderContext::draw with a LargeStringContent
DrawLargeString(content_lines, area) ==
    /\ panel' = LargeAsParagraph([panel EXCEPT !.panel_rect = area],
                                 content_lines, Inner(area))
    /\ drawn' = Some([content |-> "LargeStringContent",
                      content_lines |-> content_lines,
                      paragraph_area |-> Inner(area)])
    /\ UNCHANGED <<cache, last, computed, new_args, new_keys, text>>

\* DetailsPanelRenderContext::draw with a TextContent
DrawText(t, area) ==
    /\ panel' = TextAsParagraph([panel EXCEPT !.panel_rect = area], t, Inner(area))
    /\ drawn' = Some([content |-> "TextContent",
                      content_lines |-> IF panel.wrap THEN t.wrapped ELSE t.lines,
                      paragraph_area |-> Inner(area)])
    /\ UNCHANGED <<cache, last, computed, new_args, new_keys, text>>

\* DetailsPanel::handle_event(DetailsPanelEvent::ToggleWrap)
ToggleWrap ==
    /\ panel' = [panel EXCEPT !.wrap = ~panel.wrap]
    /\ UNCHANGED <<cache, last, computed, new_args, new_keys, text, drawn>>

\* DetailsPanel::columns
columns(p) == p.content_rect.width

\* DetailsPanel::rows
rows(p) == p.content_rect.height

\* u16::min
Min(a, b) == IF a < b THEN a ELSE b

\* DetailsPanel::scroll_to: the panel it leaves
scroll_to(p, line_no) ==
    [p EXCEPT !.scroll = Min(line_no, SaturatingSub(p.lines, 1))]

\* isize as i16: the value modulo 2^16, taken as a signed number
AsI16(n) ==
    LET m == n % U16
    IN  IF m >= U16 \div 2 THEN m - U16 ELSE m

\* u16::saturating_add_signed
SaturatingAddSigned(a, d) ==
    IF a + d < 0 THEN 0 ELSE IF a + d > U16 - 1 THEN U16 - 1 ELSE a + d

\* DetailsPanel::scroll: the panel it leaves
scroll(p, n) == scroll_to(p, SaturatingAddSigned(p.scroll, AsI16(n)))

\* enum DetailsPanelEvent without ToggleWrap
ScrollEvents ==
    {"ScrollDown", "ScrollUp", "ScrollDownHalfPage", "ScrollUpHalfPage",
     "ScrollDownPage", "ScrollUpPage"}

\* DetailsPanel::handle_event: the panel it leaves. rows() is not negative,
\* so the isize division by 2 is \div and saturating_neg is the negation.
handle_event(p, details_panel_event) ==
    CASE details_panel_event = "ScrollDown" -> scroll(p, 1)
      [] details_panel_event = "ScrollUp" -> scroll(p, 0 - 1)
      [] details_panel_event = "ScrollDownHalfPage" -> scroll(p, rows(p) \div 2)
      [] details_panel_event = "ScrollUpHalfPage" -> scroll(p, 0 - (rows(p) \div 2))
      [] details_panel_event = "ScrollDownPage" -> scroll(p, rows(p))
      [] details_panel_event = "ScrollUpPage" -> scroll(p, 0 - rows(p))
      [] details_panel_event = "ToggleWrap" -> [p EXCEPT !.wrap = ~p.wrap]

\* The keys input tells apart: Ctrl with e, y, d, u, f, b, the letter W,
\* and any other key
Keys == {"C-e", "C-y", "C-d", "C-u", "C-f", "C-b", "W", "other"}

\* DetailsPanel::input: the panel it leaves (any other key leaves it alone
\* and returns false)
input(p, key) ==
    CASE key = "C-e" -> handle_event(p, "ScrollDown")
      [] key = "C-y" -> handle_event(p, "ScrollUp")
      [] key = "C-d" -> handle_event(p, "ScrollDownHalfPage")
      [] key = "C-u" -> handle_event(p, "ScrollUpHalfPage")
      [] key = "C-f" -> handle_event(p, "ScrollDownPage")
      [] key = "C-b" -> handle_event(p, "ScrollUpPage")
      [] key = "W" -> handle_event(p, "ToggleWrap")
      [] OTHER -> p

\* Rect::contains
Contains(rect, position) ==
    /\ position.x >= rect.x
    /\ position.x < rect.x + rect.width
    /\ position.y >= rect.y
    /\ position.y < rect.y + rect.height

\* The mouse events input_mouse tells apart: the wheel up or down, or any
\* other kind, at the corner of the screen or outside every panel
MouseEvents ==
    [kind : {"ScrollUp", "ScrollDown", "Moved"},
     column : {0, MaxSide},
     row : {0, MaxSide}]

\* DetailsPanel::input_mouse: the panel it leaves (an event outside
\* panel_rect or of another kind leaves it alone and returns false)
input_mouse(p, mouse) ==
    IF ~Contains(p.panel_rect, [x |-> mouse.column, y |-> mouse.row])
    THEN p
    ELSE CASE mouse.kind = "ScrollUp" ->
                handle_event(handle_event(handle_event(p, "ScrollUp"),
                                          "ScrollUp"), "ScrollUp")
           [] mouse.kind = "ScrollDown" ->
                handle_event(handle_event(handle_event(p, "ScrollDown"),
                                          "ScrollDown"), "ScrollDown")
           [] OTHER -> p

\* The line numbers and distances the callers scroll to and by
LineNos == 0..(MaxLines + 1)

Distances == (0 - MaxLines)..MaxLines

\* A call that changes nothing but the panel
PanelCall(p) ==
    /\ panel' = p
    /\ UNCHANGED <<cache, last, computed, new_args, new_keys, text, drawn>>

CallScrollTo == \E line_no \in LineNos : PanelCall(scroll_to(panel, line_no))

CallScroll == \E n \in Distances : PanelCall(scroll(panel, n))

CallHandleEvent == \E ev \in ScrollEvents : PanelCall(handle_event(panel, ev))

CallInput == \E key \in Keys : PanelCall(input(panel, key))

CallInputMouse == \E mouse \in MouseEvents : PanelCall(input_mouse(panel, mouse))

CallDrawLargeString ==
    \E n \in LargeLines, area \in Areas : DrawLargeString(n, area)

CallDrawText == \E t \in Texts, area \in Areas : DrawText(t, area)

NextDetails ==
    \/ CallDrawLargeString
    \/ CallDrawText
    \/ ToggleWrap
    \/ CallScrollTo
    \/ CallScroll
    \/ CallHandleEvent
    \/ CallInput
    \/ CallInputMouse

SpecDetails == Init /\ [][NextDetails]_vars

\* ------------------------------------------------------------------------
\* Properties of the cache
\* ------------------------------------------------------------------------
\* The key is one of the active keys of its change id
IsActive(active, key) ==
    /\ key.id.change_id \in DOMAIN active
    /\ key \in active[key.id.change_id]

\* The key is the old key recorded for its change id
IsOld(old, key) ==
    /\ key.id.change_id \in DOMAIN old
    /\ old[key.id.change_id] = key

\* All keys in the active sets
ActiveKeys(active) == UNION {active[c] : c \in DOMAIN active}

\* The step is a call that runs insert_document on a value with this key
InsertsKey(key) ==
    /\ last'.key = Some(key)
    /\ \/ last'.op = "insert_document"
       \/ last'.op = "get_or_insert" /\ last'.computed

\* C1: Stale fallback then eviction. When a document is cached under an
\* active key k1 and set_active is called with heads that leave out k1's
\* head but hold another head of the same change, whose key k2 has no
\* document, then get(k2) returns the document of k1; and when a value
\* keyed k2 is inserted in such a state, the document of k1 is gone from
\* commit_document and get(k1) finds nothing.
C1_StaleFallbackThenEviction ==
    [][\A k1 \in DOMAIN commit_document, k2 \in CacheKeys \ DOMAIN commit_document :
        (k1.id.change_id = k2.id.change_id) =>
            /\ (/\ last'.op = "set_active"
                /\ IsActive(active_commits, k1)
                /\ ~IsActive(active_commits', k1)
                /\ IsActive(active_commits', k2))
                   => get(old_commits', commit_document', k2)
                        = Some(commit_document[k1])
            /\ (/\ InsertsKey(k2)
                /\ ~IsActive(active_commits, k1)
                /\ IsActive(active_commits, k2))
                   => /\ k1 \notin DOMAIN commit_document'
                      /\ get(old_commits', commit_document', k1) = None
      ]_vars

\* C2: Invariant I1. Every key of commit_document is either one of the
\* active keys of its change id or the old key of its change id, never
\* both and never neither.
C2_StoredKeyActiveOrOld ==
    \A k \in DOMAIN commit_document :
        IsActive(active_commits, k) # IsOld(old_commits, k)

\* C3: Bounded size. commit_document never holds more entries than there
\* are active keys plus old entries.
C3_BoundedSize ==
    Cardinality(DOMAIN commit_document)
        <= Cardinality(ActiveKeys(active_commits)) + Cardinality(DOMAIN old_commits)

\* C4 as stated: over the lifetime of the cache fn_value is invoked at most
\* once for each key, so a call that invokes it is for a key it was never
\* invoked for before.
C4_ComputeOncePerLifetime ==
    [][(last'.op = "get_or_insert" /\ last'.computed)
        => \A k \in last'.key : k \notin computed]_vars

\* C4 as amended: fn_value is invoked for a key only when commit_document
\* holds no document under exactly that key, and the call leaves a document
\* under it; so between two invocations for one key its document was
\* removed.
C4_ComputeOnlyWhenAbsent ==
    [][(last'.op = "get_or_insert" /\ last'.computed)
        => \A k \in last'.key :
            /\ k \notin DOMAIN commit_document
            /\ k \in DOMAIN commit_document']_vars

\* A key has been computed, its document evicted, and it is computed again
C4_Witness ==
    /\ last.op = "get_or_insert"
    /\ last.computed
    /\ \E k \in computed : k \notin DOMAIN commit_document

\* C5: Idempotent miss. A call of get_or_insert invokes fn_value exactly
\* when the key has no document; a second call with the same key right
\* after it does not invoke fn_value, returns the value the first returned
\* and leaves the three maps as they were.
C5_IdempotentMiss ==
    [][last'.op = "get_or_insert" =>
        /\ \A k \in last'.key : last'.computed <=> k \notin DOMAIN commit_document
        /\ (last.op = "get_or_insert" /\ last'.key = last.key) =>
            /\ ~last'.computed
            /\ last'.ret = last.ret
            /\ last'.ret # None
            /\ UNCHANGED cache]_vars

\* The second of two calls with one key has returned, the first having
\* computed the document
C5_Witness ==
    /\ last.op = "get_or_insert"
    /\ last.again
    /\ last.runs = 1
    /\ \E k \in last.key : last.ret = Some(commit_document[k])

\* What get is to return: the document under the key itself, else the
\* document under the old key of the key's change id, else nothing
GetContract(key) ==
    IF key \in DOMAIN commit_document
    THEN {commit_document[key]}
    ELSE {commit_document[k] : k \in {j \in DOMAIN commit_document :
                                        IsOld(old_commits, j)
                                        /\ j.id.change_id = key.id.change_id}}

\* C6: get returns the exact match, else the stale fallback, else nothing,
\* and a call of get leaves the three maps as they were.
C6_GetContract ==
    [][last'.op = "get" =>
        /\ \A k \in last'.key : last'.ret = GetContract(k)
        /\ UNCHANGED cache]_vars

\* A get has been answered from the old key of the change id
C6_Witness ==
    /\ last.op = "get"
    /\ \E k \in last.key :
        /\ k \notin DOMAIN commit_document
        /\ \E v \in last.ret : v.key # k /\ v.key.id.change_id = k.id.change_id

\* C7: Eviction discipline. A key leaves commit_document only in a step
\* that inserts a value, and only if it was the old key of that value's
\* change id; set_active leaves commit_document as it was.
C7_EvictionDiscipline ==
    [][/\ \A k \in DOMAIN commit_document \ DOMAIN commit_document' :
            /\ IsOld(old_commits, k)
            /\ \E j \in last'.key :
                InsertsKey(j) /\ j.id.change_id = k.id.change_id
       /\ last'.op = "set_active" => UNCHANGED commit_document]_vars

\* An insert has removed the document of the old key
C7_Witness ==
    /\ last.op \in {"insert_document", "get_or_insert"}
    /\ last.evicted # None
    /\ \A k \in last.evicted : k \notin DOMAIN commit_document
    /\ DOMAIN commit_document # {}

Divergent(k1, k2) ==
    /\ k1 # k2
    /\ k1.id.change_id = k2.id.change_id
    /\ IsActive(active_commits, k1)
    /\ IsActive(active_commits, k2)

\* C9: Divergence tolerance. When two keys of one change id are both
\* active, inserting a value for one leaves the document of the other in
\* place and unchanged, and get for each returns its own document.
C9_DivergenceTolerance ==
    [][\A k1 \in DOMAIN commit_document, k2 \in CacheKeys :
        (Divergent(k1, k2) /\ InsertsKey(k2)) =>
            /\ k1 \in DOMAIN commit_document'
            /\ commit_document'[k1] = commit_document[k1]
            /\ k2 \in DOMAIN commit_document'
            /\ commit_document'[k2].key = k2
            /\ get(old_commits', commit_document', k1) = Some(commit_document[k1])
            /\ get(old_commits', commit_document', k2) = Some(commit_document'[k2])
      ]_vars

\* Both keys of a divergent change hold a document, the second just inserted
C9_Witness ==
    /\ last.op = "insert_document"
    /\ \E k1, k2 \in DOMAIN commit_document :
        /\ Divergent(k1, k2)
        /\ last.key = Some(k2)
        /\ commit_document[k1].jj_output # commit_document[k2].jj_output

\* C10: Width normalization. Two keys made with the same id and the same
\* format other than DiffTool are equal whatever the widths, and their
\* width is 0; two keys made with the same id and the same DiffTool format
\* are equal exactly when the widths are.
C10_WidthNormalization ==
    (/\ new_keys # <<>>
     /\ new_args[1].id = new_args[2].id
     /\ new_args[1].format = new_args[2].format) =>
        IF new_args[1].format.tag = "DiffTool"
        THEN (new_keys[1] = new_keys[2]) <=> (new_args[1].width = new_args[2].width)
        ELSE new_keys[1] = new_keys[2] /\ new_keys[1].width = 0

\* Keys made with different widths: equal for a format other than DiffTool
C10_Witness ==
    /\ new_keys # <<>>
    /\ new_args[1].id = new_args[2].id
    /\ new_args[1].format = new_args[2].format
    /\ new_args[1].format.tag = "Git"
    /\ new_args[1].width # new_args[2].width
    /\ new_keys[1] = new_keys[2]

\* C15: A get_or_insert whose fn_value fails leaves active_commits,
\* old_commits and commit_document as they were: nothing is inserted and no
\* old entry is evicted.
C15_FailedComputeChangesNothing ==
    [][(last'.op = "get_or_insert" /\ last'.failed) => UNCHANGED cache]_vars

\* fn_value has failed for a key whose change id has an old entry, and the
\* old document is still there
C15_Witness ==
    /\ last.op = "get_or_insert"
    /\ last.failed
    /\ \E k \in last.key :
        /\ k.id.change_id \in DOMAIN old_commits
        /\ old_commits[k.id.change_id] \in DOMAIN commit_document

\* The step is a get_or_insert whose fn_value returned a value with another
\* key than the one asked for: fn_value ran and returned, and no document
\* is filed under the key
Mismatched ==
    /\ last'.op = "get_or_insert"
    /\ last'.computed
    /\ ~last'.failed
    /\ \A k \in last'.key : k \notin DOMAIN commit_document'

\* C16: Caller contract violation. When fn_value returns a value with
\* another key than the one asked for, the call aborts or leaves
\* active_commits unchanged with every remaining old key still in
\* commit_document, and it never returns a value as if the request had
\* been satisfied.
C16_ContractViolation ==
    [][Mismatched =>
        /\ \/ last'.panic
           \/ /\ UNCHANGED active_commits
              /\ \A c \in DOMAIN old_commits' :
                    old_commits'[c] \in DOMAIN commit_document'
        /\ ~(~last'.panic /\ last'.ret # None)]_vars

\* C20: When fn_value returns a value keyed as requested, get_or_insert
\* returns without panicking, the value returned has the requested key, and
\* has_exact_match(key) holds afterwards.
C20_ReturnsRequestedKey ==
    last.op = "get_or_insert" =>
        /\ ~last.panic
        /\ last.ret # None
        /\ \A k \in last.key :
            /\ \A v \in last.ret : v.key = k
            /\ has_exact_match(commit_document, k)

\* get_or_insert has computed a document for a key whose change id had an
\* old document to fall back to, and returned the new one
C20_Witness ==
    /\ last.op = "get_or_insert"
    /\ last.computed
    /\ last.evicted # None
    /\ \E k \in last.key : last.ret = Some(commit_document[k])

\* What insert_document(value) leaves alone: active_commits, the old
\* entries of the other change ids, and the documents of the keys that are
\* neither the value's key nor the old key of its change id
InsertFrame(value) ==
    LET c == value.key.id.change_id
        touched == {value.key} \cup OldKeyOf(old_commits, value)
    IN  /\ UNCHANGED active_commits
        /\ DOMAIN old_commits' \ {c} = DOMAIN old_commits \ {c}
        /\ \A d \in DOMAIN old_commits \ {c} : old_commits'[d] = old_commits[d]
        /\ DOMAIN commit_document' \ touched = DOMAIN commit_document \ touched
        /\ \A k \in DOMAIN commit_document \ touched :
                commit_document'[k] = commit_document[k]

\* C21 as stated: after insert_document(value) the value's key maps to the
\* value; the old key of the value's change id, if there was one, is gone
\* from commit_document and the change id has no old entry; everything else
\* is unchanged.
C21_InsertPostcondition ==
    [][\A key \in CacheKeys, out \in Outputs :
        LET value == CommitShowValue_new(key, out)
        IN  InsertDocument(value) =>
                /\ key \in DOMAIN commit_document'
                /\ commit_document'[key] = value
                /\ \A old_key \in OldKeyOf(old_commits, value) :
                        old_key \notin DOMAIN commit_document'
                /\ key.id.change_id \notin DOMAIN old_commits'
                /\ InsertFrame(value)]_vars

\* C21, amended: as above, but the old key of the value's change id is gone
\* from commit_document only when it is another key than the value's; when
\* the value is inserted under the old key itself, the key stays, mapped to
\* the new value, and is no longer old.
C21_InsertPostconditionOtherKey ==
    [][\A key \in CacheKeys, out \in Outputs :
        LET value == CommitShowValue_new(key, out)
        IN  InsertDocument(value) =>
                /\ key \in DOMAIN commit_document'
                /\ commit_document'[key] = value
                /\ \A old_key \in OldKeyOf(old_commits, value) \ {key} :
                        old_key \notin DOMAIN commit_document'
                /\ key.id.change_id \notin DOMAIN old_commits'
                /\ InsertFrame(value)]_vars

\* insert_document has replaced the old document of a change id by a
\* document under another key of the change id, with the document of
\* another change id in the cache
C21_Witness ==
    /\ last.op = "insert_document"
    /\ \E k \in last.key :
        /\ k \in DOMAIN commit_document
        /\ k.id.change_id \notin DOMAIN old_commits
        /\ \E e \in last.evicted :
            /\ e # k
            /\ e \notin DOMAIN commit_document
        /\ \E j \in DOMAIN commit_document : j.id.change_id # k.id.change_id

\* C23: Every key recorded in old_commits is in commit_document and has the
\* change id it is recorded under, so get for any key of a change id with an
\* old entry returns a value.
C23_OldNeverDangles ==
    \A c \in DOMAIN old_commits :
        /\ old_commits[c] \in DOMAIN commit_document
        /\ old_commits[c].id.change_id = c
        /\ \A key \in CacheKeys :
            key.id.change_id = c => get(old_commits, commit_document, key) # None

\* A change id has an old entry, kept in commit_document, after an insert
\* has evicted the old document of another change id
C23_Witness ==
    /\ DOMAIN old_commits # {}
    /\ last.op \in {"insert_document", "get_or_insert"}
    /\ last.evicted # None
    /\ \A e \in last.evicted : e \notin DOMAIN commit_document

\* C24: Any value get(key) returns was stored for the change id of the key.
C24_GetSameChange ==
    last.op = "get" =>
        \A k \in last.key, v \in last.ret :
            v.key.id.change_id = k.id.change_id

\* get has answered from the old key of the change id while the old
\* document of another change id was in the cache as well
C24_Witness ==
    /\ last.op = "get"
    /\ \E k \in last.key, v \in last.ret :
        /\ v.key # k
        /\ \E c \in DOMAIN old_commits : c # k.id.change_id

\* ------------------------------------------------------------------------
\* Properties of LargeString
\* ------------------------------------------------------------------------
\* The offset holds the last byte of a line terminator: an LF, or a CR that
\* no LF follows (a CR that an LF follows is the first byte of CR LF)
EndsTerminator(bytes, e) ==
    /\ is_eol_char(ByteAt(bytes, e))
    /\ ~(/\ ByteAt(bytes, e) = "CR"
         /\ e + 1 < Len(bytes)
         /\ ByteAt(bytes, e + 1) = "LF")

\* The line starts by the rule: offset 0 of a content that is not empty,
\* and every offset right after a line terminator
RuleLineStarts(bytes) ==
    {p \in 0..(Len(bytes) - 1) : p = 0 \/ EndsTerminator(bytes, p - 1)}

\* The elements of a sequence
Range(seq) == {seq[i] : i \in 1..Len(seq)}

\* The sequence is strictly increasing
Increasing(seq) == \A i \in 1..(Len(seq) - 1) : seq[i] < seq[i + 1]

\* C11: Line indexing. The line starts LargeString::new computes are those
\* of the rule in which a line ends at a lone LF, a lone CR or a CR
\* immediately followed by LF, and at no other pair of bytes.
C11_LineIndexing ==
    \A ls \in large_string :
        /\ Increasing(ls.line_start)
        /\ Range(ls.line_start) = RuleLineStarts(ls.content)

\* The number of line terminators LF, CR and CR LF of a content
RuleTerminators(bytes) ==
    Cardinality({e \in 0..(Len(bytes) - 1) : EndsTerminator(bytes, e)})

RECURSIVE PairedTerminators(_, _)
PairedTerminators(bytes, i) ==
    IF i >= Len(bytes) THEN 0
    ELSE IF ~is_eol_char(ByteAt(bytes, i)) THEN PairedTerminators(bytes, i + 1)
    ELSE IF i + 1 < Len(bytes)
            /\ {ByteAt(bytes, i), ByteAt(bytes, i + 1)} = {"LF", "CR"}
         THEN 1 + PairedTerminators(bytes, i + 2)
         ELSE 1 + PairedTerminators(bytes, i + 1)

\* The content has bytes after its last line terminator
HasOpenLine(bytes) ==
    Len(bytes) > 0 /\ ~is_eol_char(ByteAt(bytes, Len(bytes) - 1))

Window(ls, r) == IF r.panic THEN <<>> ELSE Slice(ls.content, r.start, r.end)

\* The windows of count lines from line on, one line at a time, in order
RECURSIVE LineWindows(_, _, _)
LineWindows(ls, line, count) ==
    IF count = 0 THEN <<>>
    ELSE Window(ls, render(ls, line, 1, TRUE))
            \o LineWindows(ls, line + 1, count - 1)

\* C13: Line index round-trip. The windows of render(i, 1) for all lines
\* in order make up the content, and render(a, n) selects the windows of
\* the lines a .. a+n-1.
C13_RoundTrip ==
    \A ls \in large_string :
        /\ LineWindows(ls, 0, lines(ls)) = ls.content
        /\ \A r \in rendered :
            /\ ~r.panic
            /\ Window(ls, r) = LineWindows(ls, r.top_line, r.line_count)

\* Several lines out of the middle of a content have been rendered
C13_Witness ==
    \E ls \in large_string, r \in rendered :
        /\ lines(ls) >= 3
        /\ r.top_line = 1
        /\ r.line_count = 2
        /\ Len(Window(ls, r)) >= 3
        /\ Len(Window(ls, r)) < Len(ls.content)

C19_DecodeFailureSafety ==
    \A ls \in large_string, r \in rendered :
        /\ ~r.panic
        /\ \E t \in r.text :
            /\ r.text = Some(t)
            /\ t.from = (IF r.decodes THEN "ansi" ELSE "error")
            /\ r.decodes => t.bytes = Window(ls, r)

\* A window that is not empty has failed to decode
C19_Witness ==
    \E ls \in large_string, r \in rendered :
        /\ ~r.decodes
        /\ r.start < r.end
        /\ \E t \in r.text : t.from = "error"

\* ------------------------------------------------------------------------
\* Properties of DetailsPanel
\* ------------------------------------------------------------------------
\* C17: After a draw with either kind of content, columns() and rows() are
\* the width and height of the content area of that draw; before any draw
\* they are 0.
C17_ColumnsRowsOfLastDraw ==
    /\ drawn = None => columns(panel) = 0 /\ rows(panel) = 0
    /\ \A d \in drawn :
        /\ columns(panel) = d.paragraph_area.width
        /\ rows(panel) = d.paragraph_area.height

\* C18: After a draw with a LargeStringContent, the panel's total number of
\* lines is the content's lines(), however many lines it has.
C18_LinesOfLargeString ==
    \A d \in drawn :
        d.content = "LargeStringContent" => panel.lines = d.content_lines

\* The largest of two numbers
Max(a, b) == IF a > b THEN a ELSE b

\* The events that scroll up, and those that scroll down
ScrollUpEvents == {"ScrollUp", "ScrollUpHalfPage", "ScrollUpPage"}

ScrollDownEvents == {"ScrollDown", "ScrollDownHalfPage", "ScrollDownPage"}

\* C22: In every state reached by scroll events and draws of content whose
\* length changes between draws, the scroll offset designates an existing
\* line: scroll <= max(lines, 1) - 1; scrolling up from 0 stays at 0, and
\* scrolling down never goes past the last line.
C22_ScrollDesignatesLine ==
    /\ panel.scroll <= Max(panel.lines, 1) - 1
    /\ \A ev \in ScrollUpEvents :
        panel.scroll = 0 => handle_event(panel, ev).scroll = 0
    /\ \A ev \in ScrollDownEvents :
        handle_event(panel, ev).scroll <= Max(panel.lines, 1) - 1

====
